---- MODULE Spec2Model ----
(***************************************************************************)
(* Opm::GridManager (opm/grid/GridManager.cpp): construction of an         *)
(* UnstructuredGrid through one of the C factories, exclusive ownership    *)
(* of the returned handle, and the legacy deck extraction createGrdecl.    *)
(*                                                                         *)
(* Doubles are modelled as integers (one unit = one representable step);   *)
(* 0 stands for 0.0.  Every constructor, the destructor, the accessor and  *)
(* createGrdecl is one action that models the whole body.                  *)
(***************************************************************************)
EXTENDS Integers, Sequences, FiniteSets, TLC

VARIABLES
    managers,   \* the GridManager objects that were constructed: <<[ug, alive]>>
    grids,      \* the UnstructuredGrid objects the factories returned, by handle
    input,      \* the arguments of the last constructor call
    source,     \* the EclipseGrid argument as it is after the last constructor call
    locals,     \* the local buffers of the last initFromEclipseGrid call, at its end
    trace,      \* the calls the last constructor made, in order, with what they saw
    outcome,    \* how the last constructor call ended
    accessed,   \* the last c_grid() call: [mgr, ret]
    calls,      \* the number of createGrdecl calls so far
    decks,      \* the Deck objects in use, by the number of the call they were
                \* passed to: the last call's, and the one grdecl points into
    grdecl,     \* the struct grdecl out-parameter of createGrdecl
    heap,       \* the blocks obtained from malloc: <<[data, freed]>>
    extracted   \* how the last createGrdecl call ended

vars == <<managers, grids, input, source, locals, trace, outcome, accessed,
          calls, decks, grdecl, heap, extracted>>

mgrVars  == <<managers, grids, input, source, locals, trace, outcome, accessed>>
deckVars == <<calls, decks, grdecl, heap, extracted>>

(***************************************************************************)
(* Bounds of the model.                                                    *)
(***************************************************************************)
\* number of GridManager objects ever constructed
MaxManagers == 2
\* number of layers (cells) of the 1 x 1 x NZ corner-point sources
NZ == 2
\* number of createGrdecl calls (each may malloc one block)
MaxCalls == 3

\* the null pointer: ug_(0), if (!ug_)
NULL == 0

(***************************************************************************)
(* Inputs.                                                                 *)
(***************************************************************************)
\* ZCORN of a 1 x 1 x n column of unit-thickness layers: 8 values per cell,
\* the 4 top corners of cell c at depth c-1, the 4 bottom corners at depth c.
ZcornColumn(n) ==
    [i \in 1..(8 * n) |->
        LET c == (i - 1) \div 8
            j == (i - 1) % 8
        IN  IF j < 4 THEN c ELSE c + 1]

\* COORD of the 4 vertical pillars of a 1 x 1 areal grid, 6 values per pillar.
CoordColumn ==
    <<0, 0, 0, 0, 0, 1,   1, 0, 0, 1, 0, 1,
      0, 1, 0, 0, 1, 1,   1, 1, 0, 1, 1, 1>>

MinpvModes == {"Inactive", "EclipseMinpv", "OpmFIL"}

\* An EclipseGrid: a 1 x 1 x NZ column with its ACTNUM, MINPV and PINCH data.
EclipseGrid(actnum, minpvMode, minpvValue, pinchActive, thickness) ==
    [ dims |-> <<1, 1, NZ>>,
      mapaxes |-> <<0, 1, 0, 0, 1, 0>>,
      coord |-> CoordColumn,
      zcorn |-> ZcornColumn(NZ),
      actnum |-> actnum,
      minpvMode |-> minpvMode,
      minpvValue |-> minpvValue,
      pinchActive |-> pinchActive,
      pinchThresholdThickness |-> thickness ]

AllActive == [c \in 1..NZ |-> 1]
TopInactive == [c \in 1..NZ |-> IF c = 1 THEN 0 ELSE 1]

\* The EclipseGrid objects handed to the constructors: every MINPV setting
\* on both activity arrays, and every PINCH setting.
EclipseGrids ==
    { EclipseGrid(a, m, v, TRUE, 5) :
        a \in {AllActive, TopInactive}, m \in MinpvModes, v \in {0, 2} }
    \cup
    { EclipseGrid(AllActive, m, 2, p, t) :
        m \in {"Inactive", "OpmFIL"}, p \in BOOLEAN, t \in {1, 5} }

\* The pore-volume arrays: empty, or one volume per cell with all cells
\* large, the top cell small, or all cells small.
PoreVolumeArrays ==
    { <<>>,
      [c \in 1..NZ |-> 3],
      [c \in 1..NZ |-> IF c = 1 THEN 1 ELSE 3],
      [c \in 1..NZ |-> 1] }

CartCounts == {<<1, 1, 1>>, <<2, 1, 3>>}
CartSizes == {1, 3}
FileNames == {"grid.txt", "missing.txt"}

NoGrid == [dims |-> <<0, 0, 0>>, mapaxes |-> <<>>, coord |-> <<>>, zcorn |-> <<>>,
           actnum |-> <<>>, minpvMode |-> "Inactive", minpvValue |-> 0,
           pinchActive |-> FALSE, pinchThresholdThickness |-> 0]

Args(variant, inputGrid, poreVolumes, num, filename) ==
    [variant |-> variant, grid |-> inputGrid, poreVolumes |-> poreVolumes,
     num |-> num, filename |-> filename]

\* One call made by a constructor: the function, the activity and corner
\* elevation arrays it read or left behind, its numeric arguments, its result.
Ev(fn, actnum, zcorn, num, ret) ==
    [fn |-> fn, actnum |-> actnum, zcorn |-> zcorn, num |-> num, ret |-> ret]

EclipseVariants == {"EclipseGrid", "EclipseGrid+poreVolumes"}

NoLocals == [actnum |-> <<>>, coord |-> <<>>, zcorn |-> <<>>, mapaxes |-> <<>>,
             cells_modified |-> 0]

(***************************************************************************)
(* External collaborators, by their call contract.                         *)
(***************************************************************************)
\* MinpvProcessor::process on a column of cells: every active cell whose pore
\* volume is below minpv is deactivated and collapsed (its 4 bottom corners
\* take the elevation of its 4 top corners); both arrays are changed in
\* place; the result is the number of cells modified.
process(dims, pv, minpv, actnum, opmfil, zcorn) ==
    LET n == dims[1] * dims[2] * dims[3]
        low(c) == pv[c] < minpv /\ actnum[c] # 0
    IN  [ actnum |-> [c \in 1..n |-> IF low(c) THEN 0 ELSE actnum[c]],
          zcorn  |-> [i \in 1..(8 * n) |->
                        IF low(((i - 1) \div 8) + 1) /\ (i - 1) % 8 >= 4
                        THEN zcorn[i - 4] ELSE zcorn[i]],
          count  |-> Cardinality({c \in 1..n : low(c)}) ]

\* The UnstructuredGrid a factory returns: no corner elevations attached yet,
\* not released.
NewGrid == [zcorn |-> <<>>, released |-> 0]

\* attach_zcorn_copy(G, zcorn): G keeps a copy of the array.
attach_zcorn_copy(G, zcorn) == [G EXCEPT !.zcorn = zcorn]

\* destroy_grid(G): releases G and everything attached to it.
destroy_grid(G) == [G EXCEPT !.zcorn = <<>>, !.released = @ + 1]

(***************************************************************************)
(* GridManager::initFromEclipseGrid                                        *)
(***************************************************************************)
\* The local vectors after the four export calls; cells_modified = 0.
ExportedLocals(inputGrid) ==
    [ actnum |-> inputGrid.actnum, coord |-> inputGrid.coord,
      zcorn |-> inputGrid.zcorn, mapaxes |-> inputGrid.mapaxes,
      cells_modified |-> 0 ]

\* struct grdecl g: the dimensions, and pointers to the local vectors' data.
GrdeclOf(inputGrid) ==
    [ dims |-> inputGrid.dims, coord |-> "coord", zcorn |-> "zcorn",
      actnum |-> "actnum", mapaxes |-> "mapaxes" ]

MinpvEnabled_anyMode(inputGrid, poreVolumes) == poreVolumes # <<>>

\* if (!poreVolumes.empty() && (inputGrid.getMinpvMode() != Inactive))
MinpvEnabled(inputGrid, poreVolumes) ==
    poreVolumes # <<>> /\ inputGrid.minpvMode # "Inactive"

\* mp.process(poreVolumes, minpv_value, actnum, opmfil, zcorn.data()), opmfil = true
MinpvResult(inputGrid, poreVolumes, buf) ==
    process(inputGrid.dims, poreVolumes, inputGrid.minpvValue, buf.actnum, TRUE,
            buf.zcorn)

AfterMinpv_onCopies(inputGrid, poreVolumes, buf) ==
    IF MinpvEnabled(inputGrid, poreVolumes)
    THEN [buf EXCEPT !.cells_modified = MinpvResult(inputGrid, poreVolumes, buf).count]
    ELSE buf

\* The local vectors after the minpv block: the processor worked in place on
\* actnum and zcorn and its result went to cells_modified.
AfterMinpv(inputGrid, poreVolumes, buf) ==
    IF MinpvEnabled(inputGrid, poreVolumes)
    THEN LET r == MinpvResult(inputGrid, poreVolumes, buf)
         IN  [buf EXCEPT !.actnum = r.actnum, !.zcorn = r.zcorn,
                         !.cells_modified = r.count]
    ELSE buf

z_tolerance_always(inputGrid) == inputGrid.pinchThresholdThickness

\* isPinchActive() ? getPinchThresholdThickness() : 0.0
z_tolerance(inputGrid) ==
    IF inputGrid.pinchActive THEN inputGrid.pinchThresholdThickness ELSE 0

\* What create_grid_cornerpoint(&g, z_tolerance) reads through g's pointers.
GrdeclView(g, buf) ==
    [ dims |-> g.dims, coord |-> buf[g.coord], zcorn |-> buf[g.zcorn],
      actnum |-> buf[g.actnum], mapaxes |-> buf[g.mapaxes] ]

ConstructionFailed_never(ug) == FALSE

\* if (!ug_) OPM_THROW(std::runtime_error, ...)
ConstructionFailed(ug) == ug = NULL

AttachNeeded_always(cells_modified) == cells_modified >= 0

\* if (cells_modified > 0)
AttachNeeded(cells_modified) == cells_modified > 0

\* The whole body, given the handle `ret` create_grid_cornerpoint returns:
\* the calls in order, the locals at the end, the value left in ug_, whether
\* it threw, and the grid object as the body leaves it.
initFromEclipseGrid(inputGrid, poreVolumes, ret) ==
    LET g        == GrdeclOf(inputGrid)
        exported == ExportedLocals(inputGrid)
        enabled  == MinpvEnabled(inputGrid, poreVolumes)
        buf      == AfterMinpv(inputGrid, poreVolumes, exported)
        view     == GrdeclView(g, buf)
        tol      == z_tolerance(inputGrid)
        thrown   == ConstructionFailed(ret)
        attach   == ~thrown /\ AttachNeeded(buf.cells_modified)
        exports  == << Ev("exportMAPAXES", <<>>, <<>>, <<>>, 0),
                       Ev("exportCOORD", <<>>, <<>>, <<>>, 0),
                       Ev("exportZCORN", <<>>, exported.zcorn, <<>>, 0),
                       Ev("exportACTNUM", exported.actnum, <<>>, <<>>, 0) >>
        filter   == IF enabled
                    THEN LET r == MinpvResult(inputGrid, poreVolumes, exported)
                         IN  << Ev("process", r.actnum, r.zcorn,
                                   <<inputGrid.minpvValue>>, r.count) >>
                    ELSE <<>>
        assemble == << Ev("create_grid_cornerpoint", view.actnum, view.zcorn,
                          <<tol>>, ret) >>
        last     == IF thrown THEN << Ev("throw", <<>>, <<>>, <<>>, 0) >>
                    ELSE IF attach
                         THEN << Ev("attach_zcorn_copy", <<>>, buf.zcorn, <<>>, ret) >>
                         ELSE <<>>
    IN  [ trace  |-> exports \o filter \o assemble \o last,
          locals |-> buf,
          ug     |-> ret,
          thrown |-> thrown,
          grid   |-> IF attach THEN attach_zcorn_copy(NewGrid, buf.zcorn) ELSE NewGrid ]

(***************************************************************************)
(* The constructors, the destructor and the accessor.                      *)
(***************************************************************************)
\* The handles a factory call can return: null, or a new UnstructuredGrid.
Returned == {NULL, Len(grids) + 1}

\* The body shared by the cartesian and file constructors:
\* ug_ = factory(...); if (!ug_) throw.
FromFactory(fn, num, ret) ==
    LET thrown == ConstructionFailed(ret)
    IN  [ trace  |-> << Ev(fn, <<>>, <<>>, num, ret) >> \o
                     (IF thrown THEN << Ev("throw", <<>>, <<>>, <<>>, 0) >> ELSE <<>>),
          locals |-> NoLocals,
          ug     |-> ret,
          thrown |-> thrown,
          grid   |-> NewGrid ]

\* The end of a constructor call whose body did r: an exception leaves no
\* GridManager behind; a normal return leaves one that holds ug_.
Constructed(args, r) ==
    /\ input' = args
    /\ source' = args.grid
    /\ locals' = r.locals
    /\ trace' = r.trace
    /\ grids' = IF r.ug = NULL THEN grids ELSE Append(grids, r.grid)
    /\ IF r.thrown
       THEN outcome' = "ConstructionError" /\ managers' = managers
       ELSE outcome' = "ok" /\ managers' = Append(managers, [ug |-> r.ug, alive |-> TRUE])
    /\ UNCHANGED <<accessed, deckVars>>

\* GridManager(const EclipseGrid&)
ConstructEclipse ==
    /\ Len(managers) < MaxManagers
    /\ \E inputGrid \in EclipseGrids, ret \in Returned :
        Constructed(Args("EclipseGrid", inputGrid, <<>>, <<>>, ""),
                    initFromEclipseGrid(inputGrid, <<>>, ret))

\* GridManager(const EclipseGrid&, const std::vector<double>& poreVolumes)
ConstructEclipsePoreVolumes ==
    /\ Len(managers) < MaxManagers
    /\ \E inputGrid \in EclipseGrids, poreVolumes \in PoreVolumeArrays, ret \in Returned :
        Constructed(Args("EclipseGrid+poreVolumes", inputGrid, poreVolumes, <<>>, ""),
                    initFromEclipseGrid(inputGrid, poreVolumes, ret))

\* GridManager(int nx, int ny)
ConstructCart2dUnit ==
    /\ Len(managers) < MaxManagers
    /\ \E n \in CartCounts, ret \in Returned :
        Constructed(Args("cart2d", NoGrid, <<>>, <<n[1], n[2]>>, ""),
                    FromFactory("create_grid_cart2d", <<n[1], n[2], 1, 1>>, ret))

\* GridManager(int nx, int ny, double dx, double dy)
ConstructCart2d ==
    /\ Len(managers) < MaxManagers
    /\ \E n \in CartCounts, d \in CartSizes, ret \in Returned :
        Constructed(Args("cart2d+size", NoGrid, <<>>, <<n[1], n[2], d, d>>, ""),
                    FromFactory("create_grid_cart2d", <<n[1], n[2], d, d>>, ret))

\* GridManager(int nx, int ny, int nz)
ConstructCart3d ==
    /\ Len(managers) < MaxManagers
    /\ \E n \in CartCounts, ret \in Returned :
        Constructed(Args("cart3d", NoGrid, <<>>, n, ""),
                    FromFactory("create_grid_cart3d", n, ret))

\* GridManager(int nx, int ny, int nz, double dx, double dy, double dz)
ConstructHexa3d ==
    /\ Len(managers) < MaxManagers
    /\ \E n \in CartCounts, d \in CartSizes, ret \in Returned :
        Constructed(Args("hexa3d", NoGrid, <<>>, n \o <<d, d, d>>, ""),
                    FromFactory("create_grid_hexa3d", n \o <<d, d, d>>, ret))

\* GridManager(const std::string& input_filename)
ConstructFromFile ==
    /\ Len(managers) < MaxManagers
    /\ \E input_filename \in FileNames, ret \in Returned :
        Constructed(Args("file", NoGrid, <<>>, <<>>, input_filename),
                    FromFactory("read_grid", <<>>, ret))

Released_nothing(G) == G

\* The destructor's body: destroy_grid(ug_).
Released(G) == destroy_grid(G)

\* ~GridManager()
Destructor ==
    \E m \in 1..Len(managers) :
        /\ managers[m].alive
        /\ managers' = [managers EXCEPT ![m].alive = FALSE]
        /\ grids' = [grids EXCEPT ![managers[m].ug] = Released(@)]
        /\ UNCHANGED <<input, source, locals, trace, outcome, accessed, deckVars>>

\* const UnstructuredGrid* c_grid() const { return ug_; }
c_grid(mgr) == mgr.ug

CallCGrid ==
    \E m \in 1..Len(managers) :
        /\ managers[m].alive
        /\ accessed' = [mgr |-> m, ret |-> c_grid(managers[m])]
        /\ UNCHANGED <<managers, grids, input, source, locals, trace, outcome, deckVars>>

(***************************************************************************)
(* GridManager::createGrdecl                                               *)
(***************************************************************************)
Keywords == {"ZCORN", "COORD", "ACTNUM", "DIMENS", "SPECGRID", "MAPAXES"}

\* A deck: the keywords it holds, the items of record 0 of each (for ZCORN,
\* COORD and ACTNUM the data of the keyword), and the factor that converts a
\* length of the deck's unit system to SI.
MkDeck(present, dimens, actnum, toSI) ==
    [ present |-> present,
      items |-> [ k \in Keywords |->
                    IF k \notin present THEN <<>>
                    ELSE CASE k = "ZCORN"    -> <<0, 0, 0, 0, 1, 1, 1, 1>>
                           [] k = "COORD"    -> CoordColumn
                           [] k = "ACTNUM"   -> actnum
                           [] k = "DIMENS"   -> dimens
                           [] k = "SPECGRID" -> <<3, 2, 1, 1>>
                           [] k = "MAPAXES"  -> <<0, 1, 0, 0, 1, 0>> ],
      toSI |-> toSI ]

Decks ==
    { MkDeck(p, dm, <<1, 0>>, f) :
        p \in SUBSET Keywords, dm \in {<<1, 2, 3>>, <<3, 2, 1>>}, f \in {1, 3} }

NoDeck == MkDeck({}, <<>>, <<>>, 1)

\* Pointers: into the storage of a keyword of one Deck object (every call is
\* given a Deck object of its own, named by the number of the call), to a
\* malloc block, null.
DeckPtr(id, kw) == [region |-> "deck", deck |-> id, kw |-> kw, addr |-> 0]
HeapPtr(a)      == [region |-> "heap", deck |-> 0, kw |-> "", addr |-> a]
NullPtr         == [region |-> "null", deck |-> 0, kw |-> "", addr |-> 0]

NoGrdecl == [dims |-> <<0, 0, 0>>, zcorn |-> NullPtr, coord |-> NullPtr,
             actnum |-> NullPtr, mapaxes |-> NullPtr]

hasKeyword(d, kw) == kw \in d.present

\* getKeyword(kw).getSIDoubleData(), getItem(i).getSIDouble(0): lengths in SI
getSIDoubleData(d, kw) == [i \in 1..Len(d.items[kw]) |-> d.items[kw][i] * d.toSI]

\* getKeyword(kw).getIntData()
getIntData(d, kw) == d.items[kw]

\* The array a pointer of the description refers to, in the Deck objects ds
\* and the heap mem.
Deref(ptr, ds, mem) ==
    CASE ptr.region = "heap" -> mem[ptr.addr].data
      [] ptr.region = "deck" /\ ptr.kw = "ACTNUM" -> getIntData(ds[ptr.deck], ptr.kw)
      [] ptr.region = "deck" /\ ptr.kw # "ACTNUM" -> getSIDoubleData(ds[ptr.deck], ptr.kw)
      [] OTHER -> <<>>

\* The Deck objects a description points into.
PointedDecks(g) ==
    {p.deck : p \in {q \in {g.zcorn, g.coord, g.actnum, g.mapaxes} : q.region = "deck"}}

ActnumPtr_always(id, d) == DeckPtr(id, "ACTNUM")

\* const int* actnum = NULL; if (deck.hasKeyword("ACTNUM")) actnum = &getIntData()[0];
ActnumPtr(id, d) == IF hasKeyword(d, "ACTNUM") THEN DeckPtr(id, "ACTNUM") ELSE NullPtr

DimsKeyword_specgridFirst(d) ==
    IF hasKeyword(d, "SPECGRID") THEN "SPECGRID"
    ELSE IF hasKeyword(d, "DIMENS") THEN "DIMENS"
    ELSE "none"

\* if (hasKeyword("DIMENS")) ... else if (hasKeyword("SPECGRID")) ... else throw
DimsKeyword(d) ==
    IF hasKeyword(d, "DIMENS") THEN "DIMENS"
    ELSE IF hasKeyword(d, "SPECGRID") THEN "SPECGRID"
    ELSE "none"

DimsMissing_never(d) == FALSE

\* the else branch: OPM_THROW(std::runtime_error, "Deck must have either DIMENS or SPECGRID.")
DimsMissing(d) == DimsKeyword(d) = "none"

\* dims[i] = keyword.getRecord(0).getItem(i).get<int>(0), i = 0, 1, 2
\* (std::array<int, 3> dims is left as it was when no keyword is chosen)
ResolveDims(d) ==
    LET kw == DimsKeyword(d)
    IN  IF kw = "none" THEN <<0, 0, 0>>
        ELSE <<d.items[kw][1], d.items[kw][2], d.items[kw][3]>>

\* malloc(sizeof(double) * mapaxesRecord.size()) and the copy loop: the new
\* block holds getItem(i).getSIDouble(0) for every item i of record 0.
MapaxesBlock(d) == [data |-> getSIDoubleData(d, "MAPAXES"), freed |-> FALSE]

\* The whole body on the Deck object id with contents d, out-parameter grdecl0
\* and heap mem0: how it ends, the out-parameter and the heap as it leaves them.
createGrdecl(id, d, grdecl0, mem0) ==
    IF ~hasKeyword(d, "ZCORN") \/ ~hasKeyword(d, "COORD")
    THEN \* deck.getKeyword throws before anything is written
         [outcome |-> "KeywordError", grdecl |-> grdecl0, heap |-> mem0]
    ELSE IF DimsMissing(d)
    THEN [outcome |-> "SchemaError", grdecl |-> grdecl0, heap |-> mem0]
    ELSE [ outcome |-> "ok",
           grdecl |-> [ zcorn |-> DeckPtr(id, "ZCORN"),
                        coord |-> DeckPtr(id, "COORD"),
                        actnum |-> ActnumPtr(id, d),
                        dims |-> ResolveDims(d),
                        mapaxes |-> IF hasKeyword(d, "MAPAXES")
                                    THEN HeapPtr(Len(mem0) + 1) ELSE NullPtr ],
           heap |-> IF hasKeyword(d, "MAPAXES")
                    THEN Append(mem0, MapaxesBlock(d)) ELSE mem0 ]

CallCreateGrdecl ==
    /\ calls < MaxCalls
    /\ \E d \in Decks :
        LET id == calls + 1
            r  == createGrdecl(id, d, grdecl, heap)
        IN  /\ calls' = id
            /\ decks' = [i \in {id} \cup PointedDecks(r.grdecl) |->
                            IF i = id THEN d ELSE decks[i]]
            /\ grdecl' = r.grdecl
            /\ heap' = r.heap
            /\ extracted' = r.outcome
            /\ UNCHANGED mgrVars

(***************************************************************************)
(* Specifications.                                                         *)
(***************************************************************************)
Init ==
    /\ managers = <<>>
    /\ grids = <<>>
    /\ input = Args("none", NoGrid, <<>>, <<>>, "")
    /\ source = NoGrid
    /\ locals = NoLocals
    /\ trace = <<>>
    /\ outcome = "none"
    /\ accessed = [mgr |-> 0, ret |-> NULL]
    /\ calls = 0
    /\ decks = [i \in {0} |-> NoDeck]
    /\ grdecl = NoGrdecl
    /\ heap = <<>>
    /\ extracted = "none"

\* Construction, destruction and access of GridManager objects.
Next ==
    \/ ConstructEclipse
    \/ ConstructEclipsePoreVolumes
    \/ ConstructCart2dUnit
    \/ ConstructCart2d
    \/ ConstructCart3d
    \/ ConstructHexa3d
    \/ ConstructFromFile
    \/ Destructor
    \/ CallCGrid

Spec == Init /\ [][Next]_vars

\* Calls of the static createGrdecl on one struct grdecl.
NextDeck == CallCreateGrdecl

SpecDeck == Init /\ [][NextDeck]_vars

(***************************************************************************)
(* Vocabulary of the properties.                                           *)
(***************************************************************************)
EvIdx(fn) == {i \in 1..Len(trace) : trace[i].fn = fn}
Called(fn) == EvIdx(fn) # {}
EvOf(fn) == trace[CHOOSE i \in EvIdx(fn) : TRUE]
Before(f1, f2) == \A i \in EvIdx(f1), j \in EvIdx(f2) : i < j

Factories == {"create_grid_cornerpoint", "create_grid_cart2d", "create_grid_cart3d",
              "create_grid_hexa3d", "read_grid"}
FactoryEv == trace[CHOOSE i \in 1..Len(trace) : trace[i].fn \in Factories]

IsEclipseCall == input.variant \in EclipseVariants
Exports == {"exportMAPAXES", "exportCOORD", "exportZCORN", "exportACTNUM"}

\* the manager the last successful constructor call left behind
Newest == managers[Len(managers)]
\* the number of modified cells the filtering pass reported (0 when it did not run)
Reported == IF Called("process") THEN EvOf("process").ret ELSE 0

Alive == {m \in 1..Len(managers) : managers[m].alive}
Owners(h) == {m \in 1..Len(managers) : managers[m].ug = h}

(***************************************************************************)
(* Properties of construction, ownership and access.                       *)
(***************************************************************************)
\* C1: in every constructor variant a null handle from the factory ends the
\* call with a ConstructionError and leaves no manager behind, a non-null
\* handle ends it normally, and c_grid() of a manager returns the non-null
\* handle its constructor got from the factory for as long as it lives.
C1_NullFailsElseHandleKept ==
    /\ input.variant # "none" =>
          /\ FactoryEv.ret = NULL => outcome = "ConstructionError" /\ Called("throw")
          /\ FactoryEv.ret # NULL =>
                outcome = "ok" /\ ~Called("throw") /\ Newest.ug = FactoryEv.ret
    \* one manager per handle a factory returned, the m-th holding the m-th
    /\ Len(managers) = Len(grids)
    /\ \A m \in 1..Len(managers) : managers[m].ug # NULL
    /\ \A m \in Alive : c_grid(managers[m]) = m
    /\ accessed.mgr # 0 => accessed.ret = accessed.mgr

C1_Witness ==
    /\ input.variant = "file" /\ outcome = "ConstructionError"
    /\ FactoryEv.ret = NULL
    /\ Len(managers) = 1 /\ accessed = [mgr |-> 1, ret |-> 1]

\* C2: every handle a factory returned has exactly one owning manager; it is
\* unreleased while that manager lives and released exactly once when the
\* manager has been destroyed; failed constructions add neither handle nor
\* release.
C2_ReleasedExactlyOnceByOwner ==
    /\ \A h \in 1..Len(grids) :
          /\ Cardinality(Owners(h)) = 1
          /\ \A m \in Owners(h) :
                grids[h].released = IF managers[m].alive THEN 0 ELSE 1
    /\ \A m \in 1..Len(managers) : managers[m].ug \in 1..Len(grids)

C2_Witness ==
    /\ Len(managers) = 2 /\ Alive = {1}
    /\ Len(grids) = 2
    /\ grids[2].released = 1 /\ grids[1].released = 0
    /\ accessed = [mgr |-> 1, ret |-> 1]

\* C3: in a geological-source construction the minpv processor is called if
\* and only if the pore-volume array is non-empty and the minpv mode is not
\* Inactive; otherwise cells_modified stays 0 and the assembler gets actnum
\* and zcorn exactly as exported from the source.
C3_MinpvOnlyWhenEnabled ==
    IsEclipseCall =>
        LET enabled == input.poreVolumes # <<>> /\ input.grid.minpvMode # "Inactive"
        IN  /\ Called("process") <=> enabled
            /\ input.variant = "EclipseGrid" => ~Called("process")
            /\ ~enabled =>
                  /\ locals.cells_modified = 0
                  /\ EvOf("create_grid_cornerpoint").actnum = input.grid.actnum
                  /\ EvOf("create_grid_cornerpoint").zcorn = input.grid.zcorn

C3_Witness ==
    /\ input.variant = "EclipseGrid+poreVolumes"
    /\ input.poreVolumes # <<>> /\ input.grid.minpvMode = "Inactive"
    /\ input.grid.minpvValue = 2 /\ \A c \in 1..NZ : input.poreVolumes[c] = 1
    /\ ~Called("process") /\ outcome = "ok"
    /\ EvOf("create_grid_cornerpoint").actnum = AllActive

\* C4: the tolerance handed to create_grid_cornerpoint is the pinch threshold
\* thickness when pinch is active and 0.0 when it is not, whatever the
\* threshold thickness is and whether or not the filtering pass ran.
C4_ToleranceFromPinch ==
    IsEclipseCall =>
        EvOf("create_grid_cornerpoint").num =
            << IF input.grid.pinchActive
               THEN input.grid.pinchThresholdThickness ELSE 0 >>

C4_Witness ==
    /\ IsEclipseCall /\ ~input.grid.pinchActive
    /\ input.grid.pinchThresholdThickness = 5
    /\ Called("process")
    /\ EvOf("create_grid_cornerpoint").num = <<0>>

\* C5: after a geological-source construction attach_zcorn_copy has been
\* called if and only if assembly succeeded and the filtering pass reported
\* at least one modified cell; then the handle's corner elevations are the
\* array the filtering pass left behind; otherwise the handle has none
\* attached.
C5_AttachIffModified ==
    IsEclipseCall =>
        /\ Called("attach_zcorn_copy") <=> (outcome = "ok" /\ Reported > 0)
        /\ outcome = "ok" /\ Newest.alive =>
              grids[Newest.ug].zcorn =
                  IF Reported > 0 THEN EvOf("process").zcorn ELSE <<>>

C5_Witness ==
    /\ IsEclipseCall /\ outcome = "ok" /\ Newest.alive
    /\ Reported > 0
    /\ grids[Newest.ug].zcorn = EvOf("process").zcorn
    /\ grids[Newest.ug].zcorn # EvOf("exportZCORN").zcorn

\* C10: a geological-source construction exports, then filters (if enabled),
\* then assembles, then stores the handle, then attaches (if cells were
\* modified); the source is left as it was; the activity and corner
\* elevation arrays the assembler reads are the ones the filtering pass left
\* behind.
C10_ExtractFilterAssembleAttach ==
    IsEclipseCall =>
        /\ \A e \in Exports : Called(e)
        /\ \A e \in Exports : Before(e, "process") /\ Before(e, "create_grid_cornerpoint")
        /\ Before("process", "create_grid_cornerpoint")
        /\ Called("create_grid_cornerpoint")
        /\ Before("create_grid_cornerpoint", "attach_zcorn_copy")
        /\ Before("create_grid_cornerpoint", "throw")
        /\ outcome = "ok" => Newest.ug = EvOf("create_grid_cornerpoint").ret
        /\ Called("attach_zcorn_copy") =>
              EvOf("attach_zcorn_copy").ret = EvOf("create_grid_cornerpoint").ret
        /\ source = input.grid
        /\ Called("process") =>
              /\ EvOf("create_grid_cornerpoint").actnum = EvOf("process").actnum
              /\ EvOf("create_grid_cornerpoint").zcorn = EvOf("process").zcorn

C10_Witness ==
    /\ IsEclipseCall /\ Called("process") /\ Called("attach_zcorn_copy")
    /\ EvOf("process").actnum # EvOf("exportACTNUM").actnum
    /\ EvOf("process").zcorn # EvOf("exportZCORN").zcorn
    /\ EvOf("create_grid_cornerpoint").actnum = EvOf("process").actnum

(***************************************************************************)
(* Properties of createGrdecl.                                             *)
(***************************************************************************)
\* the Deck argument of the last createGrdecl call
deck == decks[calls]

FirstThree(items) == <<items[1], items[2], items[3]>>
Required(d) == hasKeyword(d, "ZCORN") /\ hasKeyword(d, "COORD")

\* C6: the dimensions of the description are the first three items of record
\* 0 of DIMENS whenever DIMENS is present, also when SPECGRID is present with
\* other values, and those of SPECGRID only when DIMENS is absent.
C6_DimensBeforeSpecgrid ==
    extracted = "ok" =>
        grdecl.dims = IF "DIMENS" \in deck.present
                      THEN FirstThree(deck.items["DIMENS"])
                      ELSE FirstThree(deck.items["SPECGRID"])

C6_Witness ==
    /\ extracted = "ok"
    /\ {"DIMENS", "SPECGRID"} \subseteq deck.present
    /\ deck.items["DIMENS"] = <<1, 2, 3>>
    /\ FirstThree(deck.items["SPECGRID"]) = <<3, 2, 1>>
    /\ grdecl.dims = <<1, 2, 3>>

\* C7: a createGrdecl call on a deck that holds the required ZCORN and COORD
\* but neither DIMENS nor SPECGRID ends with the SchemaError and leaves the
\* description, the arrays it points at and the heap untouched, whatever
\* ACTNUM and MAPAXES it holds.
C7_NoDimensionsIsSchemaError ==
    [][ (Required(deck') /\ "DIMENS" \notin deck'.present
                         /\ "SPECGRID" \notin deck'.present)
        => /\ extracted' = "SchemaError" /\ grdecl' = grdecl /\ heap' = heap
           /\ \A f \in {"zcorn", "coord", "actnum", "mapaxes"} :
                 Deref(grdecl'[f], decks', heap') = Deref(grdecl[f], decks, heap) ]_vars

C7_Witness ==
    /\ extracted = "SchemaError"
    /\ deck.present = {"ZCORN", "COORD", "ACTNUM", "MAPAXES"}
    /\ grdecl.dims = <<3, 2, 1>> /\ grdecl.mapaxes = NullPtr /\ heap = <<>>
    \* the description still points into the Deck of the earlier, successful call
    /\ deck.toSI = 1 /\ grdecl.zcorn = DeckPtr(1, "ZCORN") /\ calls = 2
    /\ Deref(grdecl.zcorn, decks, heap) = <<0, 0, 0, 0, 3, 3, 3, 3>>

\* The parts of C8 about the buffer itself: with MAPAXES present the
\* description's mapaxes is a malloc block of its own that holds the SI
\* values of record 0 in order; with MAPAXES absent it is null.
MapaxesCopiedOrNull ==
    extracted = "ok" =>
        IF "MAPAXES" \in deck.present
        THEN /\ grdecl.mapaxes = HeapPtr(Len(heap))
             /\ Deref(grdecl.mapaxes, decks, heap) = getSIDoubleData(deck, "MAPAXES")
        ELSE grdecl.mapaxes = NullPtr

\* The part of C8 about ownership: every block createGrdecl allocated was
\* released, or is still held by the description (whose owner can release it).
MapaxesNeverLeaked ==
    \A a \in 1..Len(heap) : heap[a].freed \/ grdecl.mapaxes = HeapPtr(a)

\* C8: with MAPAXES present the description's mapaxes is a newly allocated
\* buffer, distinct from the deck's storage, holding the record's values in
\* order, with an owner that releases it exactly once (it is not leaked);
\* with MAPAXES absent it is null.
C8_MapaxesOwnedCopy == MapaxesCopiedOrNull /\ MapaxesNeverLeaked

\* C9: with ACTNUM absent the description's actnum is null and refers to no
\* array; with ACTNUM present it points at the keyword's own integer data,
\* one flag per cell in the order of the deck.
C9_ActnumNullOrDeckData ==
    extracted = "ok" =>
        IF "ACTNUM" \in deck.present
        THEN /\ grdecl.actnum = DeckPtr(calls, "ACTNUM")
             /\ Deref(grdecl.actnum, decks, heap) = deck.items["ACTNUM"]
        ELSE /\ grdecl.actnum = NullPtr
             /\ Deref(grdecl.actnum, decks, heap) = <<>>

C9_Witness ==
    /\ extracted = "ok" /\ "ACTNUM" \notin deck.present
    /\ "MAPAXES" \in deck.present
    /\ grdecl.actnum = NullPtr /\ grdecl.mapaxes.region = "heap"

====
